---- MODULE Spec2Model ----
(***************************************************************************)
(* Model of the multi-agent README review pipeline:                        *)
(*   src/src/tools.py  safe_call, validate_repo_url, fetch_repo_readme,    *)
(*                     fetch_readme_via_api                                *)
(*   src/src/app.py    _run_review_core, ask_human_choice,                 *)
(*                     get_multiline_input, run_review_workflow            *)
(* Texts are sequences of one-character strings, so strip(), truthiness    *)
(* and concatenation are computed rather than assumed.                     *)
(***************************************************************************)
EXTENDS Integers, Sequences, FiniteSets, TLC

VARIABLES
    inp,        \* arguments of the current run of _run_review_core
    pc,         \* position in the code
    sc,         \* frame of the running safe_call (tries, delay, last_err, ...)
    opLog,      \* outcomes of the invocations made by the running safe_call
    requests,   \* HTTP requests issued by fetch_readme_via_api, in order
    readme,     \* local variable readme of _run_review_core
    state,      \* the MASState mapping of the run
    keywords,   \* local variable keywords of _run_review_core
    stageLog,   \* stage invocations of the run, in order, with their argument
    prompts,    \* console prompts presented by ask_human_choice, in order
    report,     \* local variable report_text of _run_review_core
    written,    \* files written by the run, in order
    result,     \* the mapping returned by _run_review_core
    raised,     \* the exception that left _run_review_core, or NoErr
    clock,      \* time.time() in whole seconds
    files,      \* the outputs/ directory: path -> content
    oracle,     \* answers the outside world has given so far
    wrapped,    \* applications of safe_call started in the run, in order
    prev        \* summaries of the earlier runs of the same process

vars == <<inp, pc, sc, opLog, requests, readme, state, keywords, stageLog,
          prompts, report, written, result, raised, clock, files, oracle,
          wrapped, prev>>

----------------------------------------------------------------------------
(* Bounds of the model *)

MaxTries == 4
MaxBaseDelay == 2
MaxBadInputs == 1
MaxTextLen == 4
MaxMaxLen == 5
MaxUrlLen == 6

----------------------------------------------------------------------------
(* Texts *)

NL == "\n"
NoneT == <<"<None>">>
NoErr == "<no error>"
EmptyMap == [k \in {} |-> <<>>]

IsSpace(c) == c \in {" ", NL}

RECURSIVE LStrip(_)
LStrip(s) == IF s # <<>> /\ IsSpace(Head(s)) THEN LStrip(Tail(s)) ELSE s

RECURSIVE RStrip(_)
RStrip(s) ==
    IF s # <<>> /\ IsSpace(s[Len(s)]) THEN RStrip(SubSeq(s, 1, Len(s) - 1)) ELSE s

Strip(s) == RStrip(LStrip(s))

\* Python truthiness of an Optional[str]
Truthy(s) == s # NoneT /\ s # <<>>

\* `not x or not x.strip()`
IsBlank(s) == ~Truthy(s) \/ Strip(s) = <<>>

RECURSIVE Pow2(_)
Pow2(n) == IF n = 0 THEN 1 ELSE 2 * Pow2(n - 1)

RECURSIVE SumSeq(_)
SumSeq(s) == IF s = <<>> THEN 0 ELSE Head(s) + SumSeq(Tail(s))

----------------------------------------------------------------------------
(* safe_call: the retry loop of tools.py *)

ScInit(tries, base_delay) ==
    [tries |-> tries, base_delay |-> base_delay, i |-> 0, delay |-> base_delay,
     last_err |-> "None", sleeps |-> <<>>, status |-> "running",
     value |-> NoneT, error |-> NoErr]

\* try: return func(*args, **kwargs)
ScOnReturn(f, v) == [f EXCEPT !.status = "returned", !.value = v]

ScOnRaiseKeepsFirst(f, e) ==
    [f EXCEPT !.last_err = IF f.last_err = "None" THEN e ELSE f.last_err,
              !.sleeps = Append(@, f.delay),
              !.delay = 2 * @,
              !.i = @ + 1]

ScOnRaiseLinear(f, e) ==
    [f EXCEPT !.last_err = e,
              !.sleeps = Append(@, f.delay),
              !.delay = @ + f.base_delay,
              !.i = @ + 1]

\* except Exception as e: last_err = e; time.sleep(delay); delay *= 2
ScOnRaise(f, e) ==
    [f EXCEPT !.last_err = e,
              !.sleeps = Append(@, f.delay),
              !.delay = 2 * @,
              !.i = @ + 1]

\* the loop is over: raise last_err (raise None is a TypeError)
ScExhausted(f) ==
    [f EXCEPT !.status = "raised",
              !.error = IF f.last_err = "None" THEN "TypeError" ELSE f.last_err]

ScCanAttempt(f) == f.status = "running" /\ f.i < f.tries
ScNeverExhausted(f) == FALSE

\* the for loop has run out: line 109 is reached
ScIsExhausted(f) == f.status = "running" /\ f.i >= f.tries

\* safe_call(func, ..., tries=tries) called by `by`
Wrap(by, func, tries) == [by |-> by, func |-> func, tries |-> tries]

----------------------------------------------------------------------------
(* Arguments of a run, and the values of a process that runs nothing yet *)

DefaultModel == <<"gemini-2.5-flash">>
DefaultTimeout == 10
ValidUrl == <<"https://github.com", "/", "o", "/", "r">>

NoRun ==
    [repo_url |-> ValidUrl, human_feedback |-> <<>>, model_name |-> DefaultModel,
     interactive |-> FALSE, timeout_sec |-> DefaultTimeout, patched |-> FALSE]

FreshLocals ==
    /\ requests = <<>>
    /\ readme = NoneT
    /\ state = EmptyMap
    /\ keywords = <<>>
    /\ stageLog = <<>>
    /\ prompts = <<>>
    /\ report = NoneT
    /\ written = <<>>
    /\ result = EmptyMap
    /\ raised = NoErr

----------------------------------------------------------------------------
(* safe_call applied to an arbitrary operation *)

OpValues == {<<"v">>, <<>>}
OpErrors == {"E1", "E2"}

Ret(v) == [kind |-> "ret", val |-> v, err |-> NoErr]
Exc(e) == [kind |-> "raise", val |-> NoneT, err |-> e]

SafeCallInit ==
    /\ sc \in {ScInit(t, b) : t \in 0..MaxTries, b \in 1..MaxBaseDelay}
    /\ opLog = <<>>
    /\ pc = "safe_call"
    /\ inp = NoRun
    /\ FreshLocals
    /\ clock = 0
    /\ files = EmptyMap
    /\ oracle = [replay |-> {}, told |-> EmptyMap]
    /\ wrapped = <<Wrap("caller", "func", sc.tries)>>
    /\ prev = <<>>

pipelineVars == <<inp, requests, readme, state, keywords, stageLog, prompts,
                  report, written, result, raised, files, oracle, wrapped, prev>>

\* time.sleep(delay) of the iteration that took frame sc to frame f
Slept(f) == SumSeq(f.sleeps) - SumSeq(sc.sleeps)

\* one iteration of the loop whose func(*args) returns v
OpReturns ==
    /\ pc = "safe_call"
    /\ ScCanAttempt(sc)
    /\ \E v \in OpValues :
        /\ sc' = ScOnReturn(sc, v)
        /\ opLog' = Append(opLog, Ret(v))
    /\ UNCHANGED <<pc, clock, pipelineVars>>

\* one iteration of the loop whose func(*args) raises e
OpRaises ==
    /\ pc = "safe_call"
    /\ ScCanAttempt(sc)
    /\ \E e \in OpErrors :
        /\ sc' = ScOnRaise(sc, e)
        /\ clock' = clock + Slept(ScOnRaise(sc, e))
        /\ opLog' = Append(opLog, Exc(e))
    /\ UNCHANGED <<pc, pipelineVars>>

\* range(tries) is used up
SafeCallExhausted ==
    /\ pc = "safe_call"
    /\ ScIsExhausted(sc)
    /\ sc' = ScExhausted(sc)
    /\ UNCHANGED <<pc, opLog, clock, pipelineVars>>

SafeCallNext == OpReturns \/ OpRaises \/ SafeCallExhausted

SpecSafeCall == SafeCallInit /\ [][SafeCallNext]_vars

AllRaised == \A k \in DOMAIN opLog : opLog[k].kind = "raise"

\* C1: with tries = n >= 1 and an operation that raises on every invocation,
\* safe_call does not stop before the n-th invocation, makes no further one,
\* never returns a value, and raises the error of the n-th invocation.
C1_Exhaustion ==
    (pc = "safe_call" /\ sc.tries >= 1 /\ AllRaised) =>
        /\ sc.status # "returned"
        /\ sc.value = NoneT
        /\ Len(opLog) <= sc.tries
        /\ (Len(opLog) < sc.tries => sc.status = "running" /\ ScCanAttempt(sc))
        /\ (Len(opLog) = sc.tries /\ sc.status = "running" => ScIsExhausted(sc))
        /\ (sc.status = "raised" =>
                /\ Len(opLog) = sc.tries
                /\ sc.error = opLog[sc.tries].err)

C1_Witness ==
    /\ pc = "safe_call"
    /\ sc.status = "raised"
    /\ sc.tries = 3
    /\ Len(opLog) = 3
    /\ AllRaised
    /\ opLog[1].err # opLog[3].err
    /\ sc.error = opLog[3].err

\* C2: when the operation raises k times and then returns v (k < tries),
\* safe_call returns v after exactly k+1 invocations, the success is the last
\* invocation, and the sleeps are base_delay, 2*base_delay, ...,
\* 2^(k-1)*base_delay in order, base_delay*(2^k - 1) in total.
C2_SuccessAfterK ==
    (pc = "safe_call" /\ ~AllRaised) =>
        LET k == Len(opLog) - 1 IN
        /\ \A j \in 1..k : opLog[j].kind = "raise"
        /\ opLog[k + 1].kind = "ret"
        /\ k < sc.tries
        /\ sc.status = "returned"
        /\ sc.value = opLog[k + 1].val
        /\ sc.error = NoErr
        /\ sc.sleeps = [j \in 1..k |-> sc.base_delay * Pow2(j - 1)]
        /\ SumSeq(sc.sleeps) = sc.base_delay * (Pow2(k) - 1)

C2_Witness ==
    /\ pc = "safe_call"
    /\ sc.status = "returned"
    /\ Len(opLog) = 4
    /\ sc.base_delay = 2
    /\ sc.sleeps = <<2, 4, 8>>
    /\ sc.value = <<"v">>

----------------------------------------------------------------------------
(* validate_repo_url.  A URL is a sequence of tokens: the scheme-and-host   *)
(* literal is one token, every other token is one character.                *)

GithubHost == "https://github.com"
OtherHost == "https://google.com"
WrongHostUrl == <<OtherHost, "/", "o", "/", "r">>

\* [^/]
NotSlash(t) == t \notin {"/", GithubHost, OtherHost}

AnySegments(b) == b # <<>> /\ NotSlash(b[1]) /\ NotSlash(b[Len(b)])

\* [^/]+/[^/]+ on the whole of b
TwoSegments(b) ==
    \E p \in 2..(Len(b) - 1) :
        /\ b[p] = "/"
        /\ \A i \in (1..Len(b)) \ {p} : NotSlash(b[i])

\* ^https://github\.com/[^/]+/[^/]+/?$ on url.strip()
ValidateRepoUrl(url) ==
    /\ url # <<>>
    /\ LET u == Strip(url)
           b == SubSeq(u, 3, Len(u))
       IN /\ Len(u) >= 3
          /\ u[1] = GithubHost
          /\ u[2] = "/"
          /\ \/ TwoSegments(b)
             \/ (b # <<>> /\ b[Len(b)] = "/" /\ TwoSegments(SubSeq(b, 1, Len(b) - 1)))

----------------------------------------------------------------------------
(* The outside world: HTTP, the patched fetch of the test suite, the LLM    *)
(* stages and the human at the console.                                     *)

\* answers already given are repeated when the process replays the world
Answers(key, S) == IF key \in DOMAIN oracle.told THEN {oracle.told[key]} ELSE S

\* o.replay names the parts of the world ("fetch", "stage", "human") that
\* answer a later run of the process as they answered the earlier one
Told(o, part, key, v) ==
    IF part \in o.replay THEN [o EXCEPT !.told = (key :> v) @@ @] ELSE o

HttpOutcomes ==
    {[kind |-> "ok", text |-> <<"r", NL>>],
     [kind |-> "ok", text |-> <<" ">>],
     [kind |-> "status", text |-> <<>>],
     [kind |-> "exc", text |-> <<>>]}

HttpGoodStatusOnly(o) == o.kind = "ok"

\* resp.status_code == 200 and resp.text.strip()
HttpGood(o) == o.kind = "ok" /\ Strip(o.text) # <<>>

StubOutcomes ==
    {Ret(<<"r">>), Ret(<<" ">>), Ret(<<>>), Exc("E1"), Exc("E2")}

InvalidUrlError == "ValueError: Invalid GitHub repo URL. Expected https://github.com/owner/repo"
EmptyReadmeError == "RuntimeError: README content is empty or could not be retrieved."
EmptyReadmeMsg == <<"README content is empty or could not be retrieved.">>

----------------------------------------------------------------------------
(* Results of _run_review_core *)

ErrorResultWithRecommendations(msg) ==
    ("error" :> msg) @@ ("final_recommendations" :> <<>>)
    @@ ("recommendations_path" :> NoneT) @@ ("report" :> <<>>)
    @@ ("report_path" :> NoneT) @@ ("keywords" :> <<>>)

ErrorResult(msg) ==
    ("error" :> msg) @@ ("recommendations_path" :> NoneT) @@ ("report" :> <<>>)
    @@ ("report_path" :> NoneT) @@ ("keywords" :> <<>>)

AbortResult(kw) == ("final_recommendations" :> <<>>) @@ ("keywords" :> kw)

DoneResult(text, rec_f, rpt_f, kw) ==
    ("final_recommendations" :> text) @@ ("recommendations_path" :> rec_f)
    @@ ("report" :> text) @@ ("report_path" :> rpt_f) @@ ("keywords" :> kw)

\* MASState.set(key, value)
StateSet(st, key, value) == (key :> value) @@ st

\* MASState.to_dict()
ToDict(st) == st

----------------------------------------------------------------------------
(* _run_review_core: fetching the README through safe_call *)

DefaultTries == 3
DefaultBaseDelay == 1

\* app.py lines 88-93
OuterWrap == Wrap("_run_review_core", "fetch_repo_readme", DefaultTries)

\* tools.py line 125: tries is the default of safe_call
InnerWrap == Wrap("fetch_repo_readme", "fetch_readme_via_api", 3)

Terminal == {"done", "aborted", "failed", "raised"}

AfterAttemptNoBlankCheck(f) ==
    /\ sc' = f
    /\ clock' = clock + Slept(f)
    /\ IF f.status = "returned"
       THEN /\ readme' = f.value
            /\ state' = StateSet(state, "readme_raw", f.value)
            /\ pc' = "analyze"
            /\ result' = result
       ELSE /\ pc' = "fetch"
            /\ UNCHANGED <<readme, state, result>>

\* what follows the iteration of the retry loop that leaves frame f:
\* the loop goes on, or safe_call has returned and lines 104-116 run
AfterAttempt(f) ==
    /\ sc' = f
    /\ clock' = clock + Slept(f)
    /\ IF f.status = "returned"
       THEN /\ readme' = f.value
            /\ IF IsBlank(f.value)
               THEN /\ result' = ErrorResult(EmptyReadmeMsg)
                    /\ pc' = "failed"
                    /\ state' = state
               ELSE /\ state' = StateSet(state, "readme_raw", f.value)
                    /\ pc' = "analyze"
                    /\ result' = result
       ELSE /\ pc' = "fetch"
            /\ UNCHANGED <<readme, state, result>>

\* fetch_repo_readme once fetch_readme_via_api has handed back content:
\* the inner safe_call returns it at its first iteration, then lines 127-130
FetchRepoReadmeFinish(content) ==
    LET inner == ScOnReturn(ScInit(DefaultTries, DefaultBaseDelay), content)
    IN IF IsBlank(inner.value)
       THEN /\ opLog' = Append(opLog, Exc(EmptyReadmeError))
            /\ AfterAttempt(ScOnRaise(sc, EmptyReadmeError))
       ELSE /\ opLog' = Append(opLog, Ret(Strip(inner.value)))
            /\ AfterAttempt(ScOnReturn(sc, Strip(inner.value)))

runVars == <<inp, keywords, stageLog, prompts, report, written, raised, files, prev>>

\* an iteration of safe_call that calls the patched tools.fetch_repo_readme
FetchPatched ==
    /\ pc = "fetch" /\ ScCanAttempt(sc) /\ inp.patched
    /\ LET key == <<"fetch", sc.i, <<>>>> IN
       \E o \in Answers(key, StubOutcomes) :
            /\ oracle' = Told(oracle, "fetch", key, o)
            /\ opLog' = Append(opLog, o)
            /\ IF o.kind = "ret"
               THEN AfterAttempt(ScOnReturn(sc, o.val))
               ELSE AfterAttempt(ScOnRaise(sc, o.err))
    /\ UNCHANGED <<requests, wrapped, runVars>>

\* an iteration of safe_call that enters fetch_repo_readme with a rejected URL
FetchInvalidUrl ==
    /\ pc = "fetch" /\ ScCanAttempt(sc) /\ ~inp.patched
    /\ ~ValidateRepoUrl(inp.repo_url)
    /\ opLog' = Append(opLog, Exc(InvalidUrlError))
    /\ AfterAttempt(ScOnRaise(sc, InvalidUrlError))
    /\ UNCHANGED <<requests, oracle, wrapped, runVars>>

\* an iteration of safe_call that enters fetch_repo_readme with an accepted
\* URL: line 125 applies safe_call to fetch_readme_via_api
FetchValidUrl ==
    /\ pc = "fetch" /\ ScCanAttempt(sc) /\ ~inp.patched
    /\ ValidateRepoUrl(inp.repo_url)
    /\ pc' = "api"
    /\ wrapped' = Append(wrapped, InnerWrap)
    /\ UNCHANGED <<sc, opLog, requests, readme, state, result, clock, oracle, runVars>>

\* fetch_readme_via_api: requests.get on the GitHub API
RequestApi ==
    /\ pc = "api"
    /\ LET key == <<"api", sc.i, <<>>>> IN
       \E o \in Answers(key, HttpOutcomes) :
            /\ oracle' = Told(oracle, "fetch", key, o)
            /\ requests' = Append(requests, "api")
            /\ IF HttpGood(o)
               THEN FetchRepoReadmeFinish(o.text)
               ELSE /\ pc' = "raw_main"
                    /\ UNCHANGED <<sc, opLog, readme, state, result, clock>>
    /\ UNCHANGED <<wrapped, runVars>>

\* fetch_readme_via_api: requests.get on the raw README of branch main
RequestRawMain ==
    /\ pc = "raw_main"
    /\ LET key == <<"raw_main", sc.i, <<>>>> IN
       \E o \in Answers(key, HttpOutcomes) :
            /\ oracle' = Told(oracle, "fetch", key, o)
            /\ requests' = Append(requests, "raw_main")
            /\ IF HttpGood(o)
               THEN FetchRepoReadmeFinish(o.text)
               ELSE /\ pc' = "raw_master"
                    /\ UNCHANGED <<sc, opLog, readme, state, result, clock>>
    /\ UNCHANGED <<wrapped, runVars>>

\* fetch_readme_via_api: requests.get on the raw README of branch master
RequestRawMaster ==
    /\ pc = "raw_master"
    /\ LET key == <<"raw_master", sc.i, <<>>>> IN
       \E o \in Answers(key, HttpOutcomes) :
            /\ oracle' = Told(oracle, "fetch", key, o)
            /\ requests' = Append(requests, "raw_master")
            /\ FetchRepoReadmeFinish(IF HttpGood(o) THEN o.text ELSE NoneT)
    /\ UNCHANGED <<wrapped, runVars>>

\* safe_call is out of tries: it raises and lines 94-102 return the error result
FetchExhausted ==
    /\ pc = "fetch" /\ ScIsExhausted(sc)
    /\ sc' = ScExhausted(sc)
    /\ result' = ErrorResult(<<"Error fetching README: ", ScExhausted(sc).error>>)
    /\ pc' = "failed"
    /\ UNCHANGED <<opLog, requests, readme, state, clock, oracle, wrapped, runVars>>

----------------------------------------------------------------------------
(* The four stages: repo_analyzer, tag_recommender, content_improver,       *)
(* reviewer.  Each is a call to the outside: it returns a mapping that      *)
(* reflects its argument, or raises.                                        *)

StageError == "StageError"

RepoAnalyzerOutcomes(text) ==
    {Ret([summary |-> <<"summary of">> \o text, suggestions |-> <<>>]),
     Exc(StageError)}

TagRecommenderOutcomes(text) ==
    {Ret([of |-> text, tags |-> <<"k">>]), Ret([of |-> text, tags |-> <<>>]),
     Exc(StageError)}

ContentImproverOutcomes(text) ==
    {Ret([suggested_title |-> <<"title of">> \o text,
          suggested_intro |-> <<"intro of">> \o text]),
     Exc(StageError)}

\* report_out.get("report", "No report produced.")
NoReport == <<"No report produced.">>

ReviewerOutcomes(st) ==
    {Ret(<<"R">>), Ret(<<>>), Ret(NoReport), Exc(StageError)}

\* a stage call: its argument and what came back (the mapping or the error)
Invoked(stage, arg, o) ==
    [stage |-> stage, arg |-> arg, kind |-> o.kind, out |-> o.val, err |-> o.err]

----------------------------------------------------------------------------
(* ask_human_choice and get_multiline_input *)

RawInputs ==
    {<<"y", "e", "s">>, <<"Y">>, <<" ", "n", "o">>, <<"e", "d", "i", "t">>, <<"q">>}

EditInputs ==
    {<<>>,
     <<<<"a">>, <<"b">>>>,
     <<<<"b">>, <<" ">>, <<"c">>>>}

Lower(c) == CASE c = "Y" -> "y" [] c = "N" -> "n" [] c = "E" -> "e" [] OTHER -> c

LowerText(s) == [i \in DOMAIN s |-> Lower(s[i])]

\* one pass of the loop of ask_human_choice on the line typed
ParseChoice(raw) ==
    LET c == LowerText(Strip(raw))
    IN IF c \in {<<"y", "e", "s">>, <<"y">>} THEN "yes"
       ELSE IF c \in {<<"n", "o">>, <<"n">>} THEN "no"
       ELSE IF c = <<"e", "d", "i", "t">> THEN "edit"
       ELSE "again"

\* the lines read before the first blank line or the end of input
RECURSIVE TakeLines(_)
TakeLines(lines) ==
    IF lines = <<>> \/ Strip(Head(lines)) = <<>>
    THEN <<>>
    ELSE <<Head(lines)>> \o TakeLines(Tail(lines))

RECURSIVE JoinNL(_)
JoinNL(ls) ==
    IF ls = <<>> THEN <<>>
    ELSE IF Len(ls) = 1 THEN Head(ls)
    ELSE Head(ls) \o <<NL>> \o JoinNL(Tail(ls))

GetMultilineInput(lines) == Strip(JoinNL(TakeLines(lines)))

\* inputs refused so far by ask_human_choice in this run
BadInputs == Cardinality({i \in DOMAIN prompts : prompts[i].choice = "again"})

\* what the human may type at checkpoint cp: a line for ask_human_choice and,
\* after "edit", the lines read by get_multiline_input
HumanAnswers(cp) ==
    {a \in [raw : Answers(<<"input", Len(prompts), <<>>>>, RawInputs),
            lines : EditInputs] :
        IF ParseChoice(a.raw) = "edit"
        THEN a.lines \in Answers(<<"lines", cp, <<>>>>, EditInputs)
        ELSE a.lines = <<>>}

TellAnswer(cp, a) ==
    IF ParseChoice(a.raw) = "edit"
    THEN Told(Told(oracle, "human", <<"input", Len(prompts), <<>>>>, a.raw),
              "human", <<"lines", cp, <<>>>>, a.lines)
    ELSE Told(oracle, "human", <<"input", Len(prompts), <<>>>>, a.raw)

\* the prompt presented at checkpoint cp, with what ask_human_choice made of
\* the answer and what get_multiline_input returned
Heard(cp, a) ==
    [cp |-> cp, choice |-> ParseChoice(a.raw),
     edited |-> IF ParseChoice(a.raw) = "edit"
                THEN GetMultilineInput(a.lines) ELSE <<>>]

AfterChoiceNoIsProceed(choice, next) ==
    IF choice = "again" THEN pc ELSE next

AfterChoiceEditFinishes(choice, next) ==
    IF choice = "again" THEN pc
    ELSE IF choice = "no" THEN "aborted"
    ELSE IF choice = "edit" THEN "write"
    ELSE next

\* where the run goes after the line typed at a checkpoint
AfterChoice(choice, next) ==
    IF choice = "again" THEN pc
    ELSE IF choice = "no" THEN "aborted"
    ELSE next

ReadmeAfterEditAppends(current, edited) ==
    IF edited # <<>> THEN current \o <<NL>> \o edited ELSE current

ReadmeAfterEditAlways(current, edited) == edited

\* if edited: readme = edited
ReadmeAfterEdit(current, edited) ==
    IF edited # <<>> THEN edited ELSE current

----------------------------------------------------------------------------
(* _run_review_core: stages and checkpoints *)

fetchVars == <<sc, opLog, requests, clock, wrapped>>

AfterStageAlwaysAsks(checkpoint, next) == checkpoint

\* `if interactive:` after a stage: the checkpoint, or straight on
AfterStage(checkpoint, next) == IF inp.interactive THEN checkpoint ELSE next

\* lines 121-147
RepoAnalyzer ==
    /\ pc = "analyze"
    /\ LET key == <<"repo_analyzer", 0, readme>> IN
       \E o \in Answers(key, RepoAnalyzerOutcomes(readme)) :
            /\ oracle' = Told(oracle, "stage", key, o)
            /\ stageLog' = Append(stageLog, Invoked("repo_analyzer", readme, o))
            /\ IF o.kind = "raise"
               THEN /\ raised' = o.err
                    /\ pc' = "raised"
                    /\ state' = state
               ELSE /\ state' = StateSet(state, "analyzer", o.val)
                    /\ pc' = AfterStage("cp1", "tags")
                    /\ raised' = raised
    /\ UNCHANGED <<fetchVars, inp, readme, keywords, prompts, report, written,
                   result, files, prev>>

\* lines 132-145: one line read by ask_human_choice at checkpoint 1
\* and what the answer leads to
Checkpoint1 ==
    /\ pc = "cp1"
    /\ \E a \in HumanAnswers(1) :
        LET h == Heard(1, a) IN
        /\ h.choice = "again" => BadInputs < MaxBadInputs
        /\ prompts' = Append(prompts, h)
        /\ oracle' = TellAnswer(1, a)
        /\ pc' = AfterChoice(h.choice, "tags")
        /\ result' = IF h.choice = "no" THEN AbortResult(<<>>) ELSE result
        /\ readme' = IF h.choice = "edit" THEN ReadmeAfterEdit(readme, h.edited) ELSE readme
        /\ state' = IF h.choice = "edit" /\ h.edited # <<>>
                    THEN StateSet(StateSet(state, "readme_edited_stage1", TRUE),
                                  "readme_after_analyzer_edit", h.edited)
                    ELSE state
    /\ UNCHANGED <<fetchVars, inp, keywords, stageLog, report, written, raised,
                   files, prev>>

\* lines 152-160, and 162 when the run is not interactive
TagRecommender ==
    /\ pc = "tags"
    /\ LET key == <<"tag_recommender", 0, readme>> IN
       \E o \in Answers(key, TagRecommenderOutcomes(readme)) :
            /\ oracle' = Told(oracle, "stage", key, o)
            /\ stageLog' = Append(stageLog, Invoked("tag_recommender", readme, o))
            /\ IF o.kind = "raise"
               THEN /\ raised' = o.err
                    /\ pc' = "raised"
                    /\ UNCHANGED <<state, keywords>>
               ELSE /\ state' = StateSet(state, "tags", o.val)
                    /\ keywords' = o.val.tags
                    /\ pc' = AfterStage("cp2", "improve")
                    /\ raised' = raised
    /\ UNCHANGED <<fetchVars, inp, readme, prompts, report, written, result,
                   files, prev>>

\* lines 162-177: one line read by ask_human_choice at checkpoint 2
\* and what the answer leads to
Checkpoint2 ==
    /\ pc = "cp2"
    /\ \E a \in HumanAnswers(2) :
        LET h == Heard(2, a) IN
        /\ h.choice = "again" => BadInputs < MaxBadInputs
        /\ prompts' = Append(prompts, h)
        /\ oracle' = TellAnswer(2, a)
        /\ pc' = AfterChoice(h.choice, "improve")
        /\ result' = IF h.choice = "no" THEN AbortResult(keywords) ELSE result
        /\ readme' = IF h.choice = "edit" THEN ReadmeAfterEdit(readme, h.edited) ELSE readme
        /\ state' = IF h.choice = "edit" /\ h.edited # <<>>
                    THEN StateSet(StateSet(state, "readme_edited_stage2", TRUE),
                                  "readme_after_tags_edit", h.edited)
                    ELSE state
    /\ UNCHANGED <<fetchVars, inp, keywords, stageLog, report, written, raised,
                   files, prev>>

\* lines 182-187, and 189 when the run is not interactive
ContentImprover ==
    /\ pc = "improve"
    /\ LET key == <<"content_improver", 0, readme>> IN
       \E o \in Answers(key, ContentImproverOutcomes(readme)) :
            /\ oracle' = Told(oracle, "stage", key, o)
            /\ stageLog' = Append(stageLog, Invoked("content_improver", readme, o))
            /\ IF o.kind = "raise"
               THEN /\ raised' = o.err
                    /\ pc' = "raised"
                    /\ state' = state
               ELSE /\ state' = StateSet(state, "improvements", o.val)
                    /\ pc' = AfterStage("cp3", "review")
                    /\ raised' = raised
    /\ UNCHANGED <<fetchVars, inp, readme, keywords, prompts, report, written,
                   result, files, prev>>

\* lines 189-202: one line read by ask_human_choice at checkpoint 3
\* and what the answer leads to
Checkpoint3 ==
    /\ pc = "cp3"
    /\ \E a \in HumanAnswers(3) :
        LET h == Heard(3, a) IN
        /\ h.choice = "again" => BadInputs < MaxBadInputs
        /\ prompts' = Append(prompts, h)
        /\ oracle' = TellAnswer(3, a)
        /\ pc' = AfterChoice(h.choice, "review")
        /\ result' = IF h.choice = "no" THEN AbortResult(keywords) ELSE result
        /\ readme' = readme
        /\ state' = IF h.choice = "edit" /\ h.edited # <<>>
                    THEN StateSet(StateSet(state, "improvements",
                                    [state["improvements"] EXCEPT
                                        !.suggested_intro = h.edited]),
                                  "intro_edited_stage3", TRUE)
                    ELSE state
    /\ UNCHANGED <<fetchVars, inp, keywords, stageLog, report, written, raised,
                   files, prev>>

FeedbackLabel == <<NL, NL, "[Human feedback]", NL>>

WithFeedbackFirst(text, human_feedback) ==
    IF Truthy(human_feedback) THEN human_feedback \o FeedbackLabel \o text ELSE text

\* lines 216-217
WithFeedback(text, human_feedback) ==
    IF Truthy(human_feedback) THEN text \o FeedbackLabel \o human_feedback ELSE text

StateForReviewerOverwritesRaw(st, human_feedback) ==
    IF Truthy(human_feedback) THEN StateSet(st, "readme_raw", human_feedback) ELSE st

\* lines 205-206
StateForReviewer(st, human_feedback) ==
    IF Truthy(human_feedback) THEN StateSet(st, "human_feedback", human_feedback) ELSE st

ReviewerCatches ==
    /\ pc = "review"
    /\ LET st == StateForReviewer(state, inp.human_feedback)
           key == <<"reviewer", 0, ToDict(st)>>
       IN \E o \in Answers(key, ReviewerOutcomes(ToDict(st))) :
            /\ oracle' = Told(oracle, "stage", key, o)
            /\ state' = st
            /\ stageLog' = Append(stageLog, Invoked("reviewer", ToDict(st), o))
            /\ report' = WithFeedback(IF o.kind = "raise" THEN NoReport ELSE o.val,
                                      inp.human_feedback)
            /\ pc' = "write"
            /\ raised' = raised
    /\ UNCHANGED <<fetchVars, inp, readme, keywords, prompts, written, result,
                   files, prev>>

\* lines 204-217
Reviewer ==
    /\ pc = "review"
    /\ LET st == StateForReviewer(state, inp.human_feedback)
           key == <<"reviewer", 0, ToDict(st)>>
       IN \E o \in Answers(key, ReviewerOutcomes(ToDict(st))) :
            /\ oracle' = Told(oracle, "stage", key, o)
            /\ state' = st
            /\ stageLog' = Append(stageLog, Invoked("reviewer", ToDict(st), o))
            /\ IF o.kind = "raise"
               THEN /\ raised' = o.err
                    /\ pc' = "raised"
                    /\ report' = report
               ELSE /\ report' = WithFeedback(o.val, inp.human_feedback)
                    /\ pc' = "write"
                    /\ raised' = raised
    /\ UNCHANGED <<fetchVars, inp, readme, keywords, prompts, written, result,
                   files, prev>>

RecHeader == <<"Recommendations (auto-generated state)", NL, NL>>

\* lines 219-248
WriteOutputs ==
    /\ pc = "write"
    /\ LET ts == clock
           rec_f == <<"outputs/recommendations_", ts, ".txt">>
           rpt_f == <<"outputs/report_", ts, ".txt">>
           dump == <<RecHeader, ToDict(state)>>
       IN /\ files' = (rpt_f :> report) @@ (rec_f :> dump) @@ files
          /\ written' = written \o <<[path |-> rec_f, content |-> dump],
                                     [path |-> rpt_f, content |-> report]>>
          /\ result' = DoneResult(report, rec_f, rpt_f, keywords)
    /\ pc' = "done"
    /\ UNCHANGED <<fetchVars, inp, readme, state, keywords, stageLog, prompts,
                   report, raised, oracle, prev>>

----------------------------------------------------------------------------
(* One run of _run_review_core, started by main() *)

Feedbacks == {<<>>, <<" ">>, <<"f">>}

RunInputs ==
    {[NoRun EXCEPT !.repo_url = u, !.human_feedback = h, !.interactive = i,
                   !.patched = p] :
        u \in {ValidUrl, WrongHostUrl, <<>>}, h \in Feedbacks, i \in BOOLEAN,
        p \in BOOLEAN}

Init ==
    /\ inp \in {r \in RunInputs : r.patched => r.repo_url = ValidUrl}
    /\ pc = "fetch"
    /\ sc = ScInit(DefaultTries, DefaultBaseDelay)
    /\ opLog = <<>>
    /\ FreshLocals
    /\ clock = 0
    /\ files = EmptyMap
    /\ oracle = [replay |-> {}, told |-> EmptyMap]
    /\ wrapped = <<OuterWrap>>
    /\ prev = <<>>

Next ==
    \/ FetchPatched
    \/ FetchInvalidUrl
    \/ FetchValidUrl
    \/ RequestApi
    \/ RequestRawMain
    \/ RequestRawMaster
    \/ FetchExhausted
    \/ RepoAnalyzer
    \/ Checkpoint1
    \/ TagRecommender
    \/ Checkpoint2
    \/ ContentImprover
    \/ Checkpoint3
    \/ Reviewer
    \/ WriteOutputs

Spec == Init /\ [][Next]_vars

----------------------------------------------------------------------------
(* Properties of one run *)

PipelineOrder == <<"repo_analyzer", "tag_recommender", "content_improver", "reviewer">>
StageNames == [i \in DOMAIN stageLog |-> stageLog[i].stage]
LastPrompt == prompts[Len(prompts)]
LastCall == stageLog[Len(stageLog)]
Max(S) == CHOOSE x \in S : \A y \in S : y <= x

FetchAllFailed == Len(opLog) = DefaultTries /\ AllRaised
FetchBlank ==
    /\ opLog # <<>>
    /\ opLog[Len(opLog)].kind = "ret"
    /\ IsBlank(opLog[Len(opLog)].val)

\* C3: when every attempt of the README fetch fails, or the fetch returns
\* empty or whitespace-only content, the run ends FAILED: it returns a result
\* with an error message and raises nothing, no stage is invoked and no file
\* is written.
C3_FetchFailure ==
    /\ (FetchAllFailed \/ FetchBlank) =>
        /\ pc \in {"fetch", "failed"}
        /\ pc = "fetch" => FetchAllFailed /\ ScIsExhausted(sc)
        /\ raised = NoErr
        /\ stageLog = <<>>
        /\ written = <<>>
        /\ files = EmptyMap
    /\ pc = "failed" =>
        /\ FetchAllFailed \/ FetchBlank
        /\ "error" \in DOMAIN result
        /\ result["error"] =
              IF FetchBlank THEN EmptyReadmeMsg
              ELSE <<"Error fetching README: ", opLog[Len(opLog)].err>>

C3_Witness ==
    /\ pc = "failed"
    /\ ~inp.patched
    /\ FetchAllFailed
    /\ requests = <<"api", "raw_main", "raw_master", "api", "raw_main",
                    "raw_master", "api", "raw_main", "raw_master">>
    /\ "error" \in DOMAIN result

\* C4: in an interactive run, "no" at any of the three checkpoints ends the
\* run ABORTED with final_recommendations empty, no stage after that
\* checkpoint invoked and no output file written.
C4_Abort ==
    /\ (prompts # <<>> /\ LastPrompt.choice = "no") => pc = "aborted"
    /\ pc = "aborted" =>
        /\ inp.interactive
        /\ prompts # <<>>
        /\ LastPrompt.choice = "no"
        /\ "final_recommendations" \in DOMAIN result
        /\ result["final_recommendations"] = <<>>
        /\ StageNames = SubSeq(PipelineOrder, 1, LastPrompt.cp)
        /\ written = <<>>
        /\ files = EmptyMap
        /\ raised = NoErr

C4_Witness ==
    /\ pc = "aborted"
    /\ LastPrompt.cp = 3
    /\ LastPrompt.choice = "no"
    /\ Len(stageLog) = 3

\* the prompts up to checkpoint c at which non-empty edited text was supplied
\* for the README
ReadmeEdits(c) ==
    {i \in DOMAIN prompts :
        /\ prompts[i].cp <= c
        /\ prompts[i].cp \in {1, 2}
        /\ prompts[i].choice = "edit"
        /\ prompts[i].edited # <<>>}

\* C5: after "edit" with non-empty text at checkpoint 1 or 2, the tag
\* recommender and the content improver receive the most recently supplied
\* edited text, and the state holds the edited marker of that checkpoint; an
\* edit at checkpoint 3 replaces the suggested intro in the state the
\* reviewer receives.
C5_Edit ==
    /\ \A j \in DOMAIN stageLog :
        /\ (stageLog[j].stage = "tag_recommender" /\ ReadmeEdits(1) # {}) =>
                stageLog[j].arg = prompts[Max(ReadmeEdits(1))].edited
        /\ (stageLog[j].stage = "content_improver" /\ ReadmeEdits(2) # {}) =>
                stageLog[j].arg = prompts[Max(ReadmeEdits(2))].edited
    /\ \A i \in DOMAIN prompts :
        (prompts[i].choice = "edit" /\ prompts[i].edited # <<>>) =>
            /\ prompts[i].cp = 1 =>
                /\ "readme_edited_stage1" \in DOMAIN state
                /\ state["readme_edited_stage1"] = TRUE
                /\ state["readme_after_analyzer_edit"] = prompts[i].edited
            /\ prompts[i].cp = 2 =>
                /\ "readme_edited_stage2" \in DOMAIN state
                /\ state["readme_edited_stage2"] = TRUE
                /\ state["readme_after_tags_edit"] = prompts[i].edited
            /\ prompts[i].cp = 3 =>
                /\ "intro_edited_stage3" \in DOMAIN state
                /\ state["intro_edited_stage3"] = TRUE
                /\ state["improvements"].suggested_intro = prompts[i].edited
                /\ \A j \in DOMAIN stageLog :
                    stageLog[j].stage = "reviewer" =>
                        stageLog[j].arg["improvements"].suggested_intro
                            = prompts[i].edited

C5_Witness ==
    /\ pc = "done"
    /\ Len(prompts) = 3
    /\ \A i \in 1..3 : prompts[i].choice = "edit"
    /\ prompts[1].edited = <<"a", NL, "b">>
    /\ prompts[2].edited = <<"b">>
    /\ prompts[3].edited = <<"b">>
    /\ stageLog[2].arg = <<"a", NL, "b">>
    /\ stageLog[3].arg = <<"b">>

\* C7: a run that reaches DONE with non-empty human feedback f returns
\* final_recommendations equal to the reviewer's report followed by the
\* labeled section holding f, equal to `report` and to the report file.
C7_FeedbackAppended ==
    (pc = "done" /\ inp.human_feedback # <<>>) =>
        LET expected == LastCall.out \o FeedbackLabel \o inp.human_feedback IN
        /\ LastCall.stage = "reviewer"
        /\ result["final_recommendations"] = expected
        /\ result["report"] = result["final_recommendations"]
        /\ files[result["report_path"]] = expected

C7_Witness ==
    /\ pc = "done"
    /\ inp.human_feedback = <<"f">>
    /\ LastCall.out = <<"R">>
    /\ result["final_recommendations"] = <<"R", NL, NL, "[Human feedback]", NL, "f">>

\* C8: a run that reaches DONE with empty or whitespace-only human feedback
\* has a final report equal to the reviewer's report, with no trailing
\* human-feedback section.
C8_BlankFeedbackOmitted ==
    (pc = "done" /\ IsBlank(inp.human_feedback)) =>
        /\ result["final_recommendations"] = LastCall.out
        /\ files[result["report_path"]] = LastCall.out

\* C9: a returned result holds `error` exactly when the run ended FAILED,
\* `final_recommendations` exactly when it ended DONE or ABORTED, never
\* both; an ABORTED result has empty final_recommendations and no error.
C9_Distinguishable ==
    /\ pc \in {"done", "aborted", "failed"} =>
        /\ "error" \in DOMAIN result <=> pc = "failed"
        /\ "final_recommendations" \in DOMAIN result <=> pc \in {"done", "aborted"}
        /\ ~("error" \in DOMAIN result /\ "final_recommendations" \in DOMAIN result)
        /\ pc = "aborted" =>
            /\ result["final_recommendations"] = <<>>
            /\ "error" \notin DOMAIN result
    /\ pc \notin {"done", "aborted", "failed"} => result = EmptyMap

C9_Witness ==
    /\ pc = "failed"
    /\ FetchBlank
    /\ "error" \in DOMAIN result
    /\ "final_recommendations" \notin DOMAIN result

\* C10: with a URL that validate_repo_url rejects, no network request is
\* issued, the fetch is not attempted again and no backoff sleep is made
\* before the error result is returned.
C10_InvalidUrlImmediate ==
    (~inp.patched /\ ~ValidateRepoUrl(inp.repo_url)) =>
        /\ requests = <<>>
        /\ Len(opLog) <= 1
        /\ sc.sleeps = <<>>

----------------------------------------------------------------------------
(* Two runs in one process, the first by main(), interactive, the second  *)
(* by run_review_workflow with the same arguments once the first has ended *)
(* with every checkpoint confirmed.  tools.fetch_repo_readme                *)
(* is patched as in tests/test_workflow.py; the fetch and the stages answer *)
(* the second run as they answered the first.                               *)

Summary ==
    [inp |-> inp, pc |-> pc, opLog |-> opLog, requests |-> requests,
     stageLog |-> stageLog, prompts |-> prompts, state |-> state,
     report |-> report, written |-> written, result |-> result,
     raised |-> raised]

\* every checkpoint answered so far was confirmed ("yes"), perhaps after
\* lines that ask_human_choice refused
SaidYesThroughout(ps) == \A i \in DOMAIN ps : ps[i].choice \in {"yes", "again"}

\* run_review_workflow(repo_url, human_feedback, model_name, timeout_sec),
\* called to repeat a run in which the human confirmed every checkpoint
RunReviewWorkflow ==
    /\ pc \in Terminal
    /\ oracle.replay # {}
    /\ prev = <<>>
    /\ SaidYesThroughout(prompts)
    /\ prev' = <<Summary>>
    /\ inp' = [inp EXCEPT !.interactive = FALSE]
    /\ pc' = "fetch"
    /\ sc' = ScInit(DefaultTries, DefaultBaseDelay)
    /\ opLog' = <<>>
    /\ requests' = <<>>
    /\ readme' = NoneT
    /\ state' = EmptyMap
    /\ keywords' = <<>>
    /\ stageLog' = <<>>
    /\ prompts' = <<>>
    /\ report' = NoneT
    /\ written' = <<>>
    /\ result' = EmptyMap
    /\ raised' = NoErr
    /\ \E tick \in {0, 1} : clock' = clock + tick
    /\ wrapped' = <<OuterWrap>>
    /\ UNCHANGED <<files, oracle>>

PairInit ==
    /\ inp \in {r \in RunInputs : r.interactive /\ r.patched /\ r.repo_url = ValidUrl}
    /\ pc = "fetch"
    /\ sc = ScInit(DefaultTries, DefaultBaseDelay)
    /\ opLog = <<>>
    /\ FreshLocals
    /\ clock = 0
    /\ files = EmptyMap
    /\ oracle = [replay |-> {"fetch", "stage"}, told |-> EmptyMap]
    /\ wrapped = <<OuterWrap>>
    /\ prev = <<>>

PairNext ==
    \/ FetchPatched
    \/ FetchExhausted
    \/ RepoAnalyzer
    \/ Checkpoint1
    \/ TagRecommender
    \/ Checkpoint2
    \/ ContentImprover
    \/ Checkpoint3
    \/ Reviewer
    \/ WriteOutputs
    \/ RunReviewWorkflow

SpecPair == PairInit /\ [][PairNext]_vars

\* the files of a run without the timestamp of their names
Contents(w) == [i \in DOMAIN w |-> [kind |-> w[i].path[1], content |-> w[i].content]]

\* C6: a run with interactive=False presents no checkpoint prompt, and with
\* the same fetch and stage responses it ends as the interactive run in
\* which "yes" is chosen at every checkpoint does: same stage invocations
\* in the same order, same final state, same report, same files.
C6_NonInteractiveEquivalence ==
    /\ ~inp.interactive => prompts = <<>>
    /\ (prev # <<>> /\ pc \in Terminal /\ SaidYesThroughout(prev[1].prompts)) =>
        /\ ~inp.interactive
        /\ prev[1].inp.interactive
        /\ pc = prev[1].pc
        /\ stageLog = prev[1].stageLog
        /\ state = prev[1].state
        /\ report = prev[1].report
        /\ Contents(written) = Contents(prev[1].written)
        /\ raised = prev[1].raised

C6_Witness ==
    /\ prev # <<>>
    /\ pc = "done"
    /\ prev[1].pc = "done"
    /\ Len(prev[1].prompts) = 4
    /\ SaidYesThroughout(prev[1].prompts)
    /\ Len(stageLog) = 4
    /\ Len(written) = 2
    /\ prompts = <<>>

----------------------------------------------------------------------------
(* The README fetch of one run on its own, with the real                    *)
(* tools.fetch_repo_readme: every HTTP answer is kept in oracle.told under  *)
(* its channel and the iteration of the orchestrator's safe_call.           *)

FetchInit ==
    /\ inp \in {r \in RunInputs :
                    /\ ~r.patched /\ ~r.interactive /\ r.human_feedback = <<>>
                    /\ r.repo_url \in {ValidUrl, WrongHostUrl}}
    /\ pc = "fetch"
    /\ sc = ScInit(DefaultTries, DefaultBaseDelay)
    /\ opLog = <<>>
    /\ FreshLocals
    /\ clock = 0
    /\ files = EmptyMap
    /\ oracle = [replay |-> {"fetch"}, told |-> EmptyMap]
    /\ wrapped = <<OuterWrap>>
    /\ prev = <<>>

FetchNext ==
    \/ FetchInvalidUrl
    \/ FetchValidUrl
    \/ RequestApi
    \/ RequestRawMain
    \/ RequestRawMaster
    \/ FetchExhausted

SpecFetch == FetchInit /\ [][FetchNext]_vars

ChannelOrder == <<"api", "raw_main", "raw_master">>

\* channel c was requested in fetch attempt n (n counts from 0)
Asked(n, c) == <<ChannelOrder[c], n, <<>>>> \in DOMAIN oracle.told
Answer(n, c) == oracle.told[<<ChannelOrder[c], n, <<>>>>]

\* a 200 response whose text has a character that is not whitespace
NonEmptySuccess(o) == o.kind = "ok" /\ \E i \in DOMAIN o.text : ~IsSpace(o.text[i])

\* C11: with a valid URL the requests of a fetch attempt go API, raw main,
\* raw master; a channel is requested only after every earlier channel of the
\* attempt failed or came back empty; the attempt ends at the first
\* non-empty success and returns its content, or, with all three channels
\* used up, raises the empty-README error, which is not the invalid-URL
\* error.
C11_ChannelOrder ==
    ValidateRepoUrl(inp.repo_url) =>
        /\ \A i \in DOMAIN requests :
            /\ requests[i] = "raw_main" => i > 1 /\ requests[i - 1] = "api"
            /\ requests[i] = "raw_master" => i > 1 /\ requests[i - 1] = "raw_main"
            /\ requests[i] = "api" => (i = 1 \/ requests[i - 1] # "raw_main")
        /\ \A n \in 0..(DefaultTries - 1) :
            /\ \A c \in 2..3 :
                Asked(n, c) => Asked(n, c - 1) /\ ~NonEmptySuccess(Answer(n, c - 1))
            /\ \A c \in 1..2 :
                (Asked(n, c) /\ NonEmptySuccess(Answer(n, c))) => ~Asked(n, c + 1)
            /\ Len(opLog) > n =>
                \/ \E c \in 1..3 :
                    /\ Asked(n, c)
                    /\ NonEmptySuccess(Answer(n, c))
                    /\ opLog[n + 1] = Ret(Strip(Answer(n, c).text))
                    /\ Len(opLog) = n + 1
                \/ /\ \A c \in 1..3 : Asked(n, c) /\ ~NonEmptySuccess(Answer(n, c))
                   /\ opLog[n + 1] = Exc(EmptyReadmeError)
                   /\ opLog[n + 1] # Exc(InvalidUrlError)

C11_Witness ==
    /\ ValidateRepoUrl(inp.repo_url)
    /\ pc = "analyze"
    /\ requests = <<"api", "raw_main", "raw_master", "api", "raw_main", "raw_master">>
    /\ Answer(0, 1).kind = "ok"
    /\ Answer(0, 2).kind = "status"
    /\ Answer(0, 3).kind = "exc"
    /\ opLog = <<Exc(EmptyReadmeError), Ret(<<"r">>)>>
    /\ NonEmptySuccess(Answer(1, 3))

----------------------------------------------------------------------------
(* sanitize_text(text, max_len), called on its own *)

Min(a, b) == IF a <= b THEN a ELSE b

\* s[:k], k of either sign
Prefix(s, k) ==
    IF k >= 0 THEN SubSeq(s, 1, Min(k, Len(s)))
    ELSE SubSeq(s, 1, IF Len(s) + k > 0 THEN Len(s) + k ELSE 0)

\* re.sub(r"\s+", " ", s)
RECURSIVE CollapseSpaces(_)
CollapseSpaces(s) ==
    IF s = <<>> THEN <<>>
    ELSE IF IsSpace(Head(s)) THEN <<" ">> \o CollapseSpaces(LStrip(s))
    ELSE <<Head(s)>> \o CollapseSpaces(Tail(s))

Ellipsis == <<".", ".", ".">>

SanitizeText(text, max_len) ==
    IF ~Truthy(text) THEN <<>>
    ELSE LET t == CollapseSpaces(Strip(text))
         IN IF Len(t) > max_len THEN Prefix(t, max_len - 3) \o Ellipsis ELSE t

SanitizeChars == {"a", " ", NL}

RECURSIVE TextsUpTo(_)
TextsUpTo(n) ==
    IF n = 0 THEN {<<>>}
    ELSE TextsUpTo(n - 1)
         \cup {Append(t, c) : t \in {u \in TextsUpTo(n - 1) : Len(u) = n - 1},
                              c \in SanitizeChars}

SanitizeInit ==
    /\ inp \in [text : TextsUpTo(MaxTextLen), max_len : 0..MaxMaxLen]
    /\ pc = "sanitize_text"
    /\ sc = ScInit(0, DefaultBaseDelay)
    /\ opLog = <<>>
    /\ FreshLocals
    /\ clock = 0
    /\ files = EmptyMap
    /\ oracle = [replay |-> {}, told |-> EmptyMap]
    /\ wrapped = <<>>
    /\ prev = <<>>

\* the call returns: result holds the returned string
SanitizeReturns ==
    /\ pc = "sanitize_text"
    /\ pc' = "sanitized"
    /\ result' = SanitizeText(inp.text, inp.max_len)
    /\ UNCHANGED <<inp, sc, opLog, requests, readme, state, keywords, stageLog,
                   prompts, report, written, raised, clock, files, oracle,
                   wrapped, prev>>

SanitizeNext == SanitizeReturns

SpecSanitize == SanitizeInit /\ [][SanitizeNext]_vars

EndsWithEllipsis(s) == Len(s) >= 3 /\ SubSeq(s, Len(s) - 2, Len(s)) = Ellipsis

NoSpaceRun(s) == \A i \in 1..(Len(s) - 1) : ~(IsSpace(s[i]) /\ IsSpace(s[i + 1]))

\* C12: sanitize_text(text, max_len) is at most max_len long, ends with
\* "..." whenever text is longer than max_len, and holds no two adjacent
\* whitespace characters.
C12_SanitizeBounds ==
    pc = "sanitized" =>
        /\ Len(result) <= inp.max_len
        /\ Len(inp.text) > inp.max_len => EndsWithEllipsis(result)
        /\ NoSpaceRun(result)

----------------------------------------------------------------------------
(* validate_repo_url(url), called on its own *)

UrlTokens == {GithubHost, OtherHost, "/", "o", "r", " "}

RECURSIVE UrlsUpTo(_)
UrlsUpTo(n) ==
    IF n = 0 THEN {<<>>}
    ELSE UrlsUpTo(n - 1)
         \cup {Append(u, t) : u \in {v \in UrlsUpTo(n - 1) : Len(v) = n - 1},
                              t \in UrlTokens}

ValidateInit ==
    /\ inp \in [url : UrlsUpTo(MaxUrlLen)]
    /\ pc = "validate_repo_url"
    /\ sc = ScInit(0, DefaultBaseDelay)
    /\ opLog = <<>>
    /\ FreshLocals
    /\ clock = 0
    /\ files = EmptyMap
    /\ oracle = [replay |-> {}, told |-> EmptyMap]
    /\ wrapped = <<>>
    /\ prev = <<>>

\* the call returns: result holds the returned bool
ValidateReturns ==
    /\ pc = "validate_repo_url"
    /\ pc' = "validated"
    /\ result' = ValidateRepoUrl(inp.url)
    /\ UNCHANGED <<inp, sc, opLog, requests, readme, state, keywords, stageLog,
                   prompts, report, written, raised, clock, files, oracle,
                   wrapped, prev>>

ValidateNext == ValidateReturns

SpecValidate == ValidateInit /\ [][ValidateNext]_vars

\* owner and repository names: non-empty, of name characters
Names == {n \in UrlsUpTo(MaxUrlLen - 4) : n # <<>> /\ \A i \in DOMAIN n : n[i] \in {"o", "r"}}

CanonicalUrls == {<<GithubHost, "/">> \o owner \o <<"/">> \o repo : owner \in Names, repo \in Names}

\* the host is there but an owner or a repository segment is not
MissingSegmentUrls ==
    {<<GithubHost>>, <<GithubHost, "/">>, <<GithubHost, "/", "/">>}
    \cup {<<GithubHost, "/">> \o owner : owner \in Names}
    \cup {<<GithubHost, "/">> \o owner \o <<"/">> : owner \in Names}
    \cup {<<GithubHost, "/", "/">> \o repo : repo \in Names}

\* the text does not begin with https://github.com
DifferentHost(url) == url # <<>> /\ url[1] # GithubHost /\ url[1] # " "

\* C13: validate_repo_url returns true on every
\* https://github.com/<owner>/<repo> with non-empty owner and repo, and false
\* on the empty string, on every URL of another host and on every URL that
\* lacks the owner or the repo segment.
C13_ValidateRepoUrl ==
    pc = "validated" =>
        /\ inp.url \in CanonicalUrls => result = TRUE
        /\ inp.url = <<>> => result = FALSE
        /\ DifferentHost(inp.url) => result = FALSE
        /\ inp.url \in MissingSegmentUrls => result = FALSE

C13_Witness ==
    /\ pc = "validated"
    /\ inp.url = <<GithubHost, "/", "o", "r", "/", "r">>
    /\ result = TRUE

----------------------------------------------------------------------------
(* A run of _run_review_core and then the same call made again in the same *)
(* world with other values of model_name and timeout_sec: the clock, the    *)
(* fetch, the stages and the human answer the second call as they answered  *)
(* the first, and outputs/ is as it was.                                    *)

ModelNames == {DefaultModel, <<"other-model">>}
Timeouts == {DefaultTimeout, 1}

FetchFrameUsesTimeout(run) == ScInit(DefaultTries, run.timeout_sec)

\* the safe_call that _run_review_core starts with arguments run (lines 88-93)
FetchFrame(run) == ScInit(DefaultTries, DefaultBaseDelay)

InertInit ==
    /\ inp \in {r \in RunInputs : r.patched /\ r.repo_url = ValidUrl /\ r.human_feedback = <<"f">>}
    /\ pc = "fetch"
    /\ sc = FetchFrame(inp)
    /\ opLog = <<>>
    /\ FreshLocals
    /\ clock = 0
    /\ files = EmptyMap
    /\ oracle = [replay |-> {"fetch", "stage", "human"}, told |-> EmptyMap]
    /\ wrapped = <<OuterWrap>>
    /\ prev = <<>>

\* _run_review_core called with the same repo_url, human_feedback and
\* interactive, and another model_name and another timeout_sec
RunWithOtherParameters ==
    /\ pc \in Terminal
    /\ prev = <<>>
    /\ prev' = <<Summary>>
    /\ \E m \in ModelNames, t \in Timeouts :
        /\ m # inp.model_name /\ t # inp.timeout_sec
        /\ inp' = [inp EXCEPT !.model_name = m, !.timeout_sec = t]
        /\ sc' = FetchFrame([inp EXCEPT !.model_name = m, !.timeout_sec = t])
    /\ pc' = "fetch"
    /\ opLog' = <<>>
    /\ requests' = <<>>
    /\ readme' = NoneT
    /\ state' = EmptyMap
    /\ keywords' = <<>>
    /\ stageLog' = <<>>
    /\ prompts' = <<>>
    /\ report' = NoneT
    /\ written' = <<>>
    /\ result' = EmptyMap
    /\ raised' = NoErr
    /\ clock' = 0
    /\ files' = EmptyMap
    /\ wrapped' = <<OuterWrap>>
    /\ UNCHANGED oracle

InertNext ==
    \/ FetchPatched
    \/ FetchExhausted
    \/ RepoAnalyzer
    \/ Checkpoint1
    \/ TagRecommender
    \/ Checkpoint2
    \/ ContentImprover
    \/ Checkpoint3
    \/ Reviewer
    \/ WriteOutputs
    \/ RunWithOtherParameters

SpecInert == InertInit /\ [][InertNext]_vars

\* C14: two calls that differ only in model_name and timeout_sec and get the
\* same answers from outside make the same fetch attempts, stage
\* invocations, prompts and file writes and end with the same result.
C14_InertParameters ==
    (prev # <<>> /\ pc \in Terminal) =>
        /\ inp.model_name # prev[1].inp.model_name
        /\ inp.timeout_sec # prev[1].inp.timeout_sec
        /\ inp.repo_url = prev[1].inp.repo_url
        /\ inp.human_feedback = prev[1].inp.human_feedback
        /\ inp.interactive = prev[1].inp.interactive
        /\ pc = prev[1].pc
        /\ opLog = prev[1].opLog
        /\ stageLog = prev[1].stageLog
        /\ prompts = prev[1].prompts
        /\ written = prev[1].written
        /\ result = prev[1].result
        /\ raised = prev[1].raised

C14_Witness ==
    /\ prev # <<>>
    /\ pc = "done"
    /\ inp.model_name # prev[1].inp.model_name
    /\ inp.timeout_sec # prev[1].inp.timeout_sec
    /\ inp.interactive
    /\ Len(opLog) = 2
    /\ Len(stageLog) = 4
    /\ \E i \in DOMAIN prompts : prompts[i].choice = "edit"
    /\ written = prev[1].written
    /\ Len(written) = 2

----------------------------------------------------------------------------
(* Order of the steps of one run *)

FetchingAt == {"fetch", "api", "raw_main", "raw_master", "analyze"}
CheckpointAt == {"cp1", "cp2", "cp3"}
StageAt == {"analyze", "tags", "improve", "review"}

\* FETCHING 0, ANALYZED 1, TAGGED 2, IMPROVED 3, REVIEWED 4, DONE 5
Phase(p) ==
    CASE p \in FetchingAt -> 0
      [] p \in {"cp1", "tags"} -> 1
      [] p \in {"cp2", "improve"} -> 2
      [] p \in {"cp3", "review"} -> 3
      [] p = "write" -> 4
      [] p = "done" -> 5
      [] OTHER -> 6

OrderedStep ==
    /\ pc \notin Terminal
    /\ pc' \notin {"aborted", "failed", "raised"} =>
            /\ Phase(pc') >= Phase(pc)
            /\ Phase(pc') <= Phase(pc) + 1
    /\ pc' = "aborted" => pc \in CheckpointAt
    /\ pc' = "failed" => pc \in FetchingAt \ {"analyze"}
    /\ pc' = "raised" => pc \in StageAt
    /\ stageLog' # stageLog =>
            /\ pc \in StageAt
            /\ sc.status = "returned"
            /\ Len(stageLog) < Len(PipelineOrder)
            /\ \A j \in DOMAIN stageLog : stageLog[j].kind = "ret"
            /\ SubSeq(stageLog', 1, Len(stageLog)) = stageLog
            /\ Len(stageLog') = Len(stageLog) + 1
            /\ stageLog'[Len(stageLog')].stage = PipelineOrder[Len(stageLog) + 1]
            /\ Phase(pc) = Len(stageLog)
    /\ (written' # written \/ files' # files) =>
            /\ pc = "write"
            /\ pc' = "done"
            /\ Len(stageLog) = Len(PipelineOrder)

\* C15: every step of a run keeps or advances the phase by one, in the order
\* FETCHING, ANALYZED, TAGGED, IMPROVED, REVIEWED, DONE; a stage is invoked
\* once, after the fetch has returned and every earlier stage has returned;
\* ABORTED is entered from a checkpoint only, FAILED from the fetch (error
\* result) or from a stage invocation (exception) only; files are written
\* on the step from REVIEWED to DONE only.
C15_PipelineOrdering == [][OrderedStep]_vars

C15_Witness ==
    /\ pc = "done"
    /\ inp.interactive
    /\ StageNames = PipelineOrder
    /\ Len(prompts) = 4
    /\ Len(written) = 2
    /\ Len(opLog) = 3

----------------------------------------------------------------------------
(* Writes to the shared state during one run *)

\* the step is an "edit" answer at a checkpoint that supplied text
HumanEditStep ==
    /\ pc \in CheckpointAt
    /\ Len(prompts') = Len(prompts) + 1
    /\ prompts'[Len(prompts')].choice = "edit"
    /\ prompts'[Len(prompts')].edited # <<>>

AdditiveStep ==
    \A k \in DOMAIN state :
        /\ k \in DOMAIN state'
        /\ state'[k] # state[k] =>
                /\ HumanEditStep
                /\ k = "improvements"
                /\ state'[k] = [state[k] EXCEPT
                                    !.suggested_intro = prompts'[Len(prompts')].edited]

\* C16: no step of a run removes a key of the state or changes the value
\* of a key already written, except the step of an "edit" answer at a
\* checkpoint, which puts the edited text in place of the suggested intro.
C16_StateAdditive == [][AdditiveStep]_vars

C16_Witness ==
    /\ pc = "done"
    /\ DOMAIN state = {"readme_raw", "analyzer", "readme_edited_stage1",
                       "readme_after_analyzer_edit", "tags", "improvements",
                       "intro_edited_stage3", "human_feedback"}
    /\ state["readme_raw"] = <<"r">>
    /\ state["readme_after_analyzer_edit"] = <<"a", NL, "b">>
    /\ state["improvements"].suggested_intro = <<"b">>
    /\ stageLog[3].out.suggested_intro # <<"b">>

----------------------------------------------------------------------------
(* What the reviewer is given *)

\* C17: the mapping passed to the reviewer holds no human_feedback entry;
\* the feedback note reaches the report only after the reviewer has
\* returned, as the appended section.
C17_FeedbackOutOfReviewerState ==
    /\ \A j \in DOMAIN stageLog :
        stageLog[j].stage = "reviewer" => "human_feedback" \notin DOMAIN stageLog[j].arg
    /\ report # NoneT =>
        /\ LastCall.stage = "reviewer"
        /\ LastCall.kind = "ret"
        /\ report = WithFeedback(LastCall.out, inp.human_feedback)

----------------------------------------------------------------------------
(* Where retries are applied *)

Count(seq, x) == Cardinality({i \in DOMAIN seq : seq[i] = x})

\* C18: in one run safe_call is applied once, by _run_review_core with
\* tries = 3, and the retrieval under it (fetch_readme_via_api and each of
\* its channels) is attempted at most 3 times in total.
C18_RetryOnlyAtBoundary ==
    /\ wrapped = <<OuterWrap>>
    /\ Len(opLog) <= DefaultTries
    /\ \A c \in DOMAIN ChannelOrder : Count(requests, ChannelOrder[c]) <= DefaultTries

----------------------------------------------------------------------------
(* A stage that raises *)

Raising == {j \in DOMAIN stageLog : stageLog[j].kind = "raise"}

\* C19: when a stage invocation raises, it is the last invocation of the
\* run: the stage is not called again, no later stage is called, the
\* exception leaves _run_review_core, no result mapping is returned and no
\* file is written.
C19_StageFailure ==
    /\ Raising # {} =>
        /\ Raising = {Len(stageLog)}
        /\ StageNames = SubSeq(PipelineOrder, 1, Len(stageLog))
        /\ pc = "raised"
        /\ raised = LastCall.err
        /\ raised # NoErr
        /\ result = EmptyMap
        /\ written = <<>>
        /\ files = EmptyMap
    /\ pc = "raised" => Raising # {}

C19_Witness ==
    /\ pc = "raised"
    /\ inp.interactive
    /\ Len(stageLog) = 4
    /\ LastCall.stage = "reviewer"
    /\ raised = StageError
    /\ result = EmptyMap

----------------------------------------------------------------------------
(* The files of successive runs *)

Paths(w) == {w[i].path : i \in DOMAIN w}

\* C20: a run that ends DONE has written two files, named with one
\* timestamp, and no run writes to a path that an earlier run of the process
\* has written.
C20_WriteOnce ==
    /\ pc = "done" =>
        /\ Len(written) = 2
        /\ written[1].path # written[2].path
        /\ written[1].path[2] = written[2].path[2]
    /\ pc # "done" => written = <<>>
    /\ prev # <<>> => Paths(written) \cap Paths(prev[1].written) = {}

----------------------------------------------------------------------------
(* What a stage adds to the shared state *)

\* the keys of st that hold the output of a stage; human_feedback is put
\* there by _run_review_core itself on its way to the reviewer
StageKeys(st) == DOMAIN st \ {"human_feedback"}

\* the step is a stage invocation that returned
StageReturned ==
    /\ Len(stageLog') = Len(stageLog) + 1
    /\ stageLog'[Len(stageLog')].kind = "ret"

FootprintStep ==
    StageReturned =>
        /\ \E k \in StageKeys(state') \ StageKeys(state) :
            /\ StageKeys(state') = StageKeys(state) \cup {k}
            /\ state'[k] = stageLog'[Len(stageLog')].out
        /\ \A j \in DOMAIN state : j \in DOMAIN state' /\ state'[j] = state[j]

\* C21: the step of each of the four stages adds exactly one entry, the
\* output of the stage under a key of its own, to the state and leaves every
\* other entry as it was.
C21_StageFootprint == [][FootprintStep]_vars

----------------------------------------------------------------------------
(* A run in which every call to the outside returns or raises: whatever    *)
(* step the code can take next is taken.  The human enters a valid choice   *)
(* after at most MaxBadInputs refused lines at all checkpoints together.    *)

LiveInit ==
    /\ inp \in {r \in RunInputs : (r.patched => r.repo_url = ValidUrl) /\ r.human_feedback = <<"f">>}
    /\ pc = "fetch"
    /\ sc = ScInit(DefaultTries, DefaultBaseDelay)
    /\ opLog = <<>>
    /\ FreshLocals
    /\ clock = 0
    /\ files = EmptyMap
    /\ oracle = [replay |-> {}, told |-> EmptyMap]
    /\ wrapped = <<OuterWrap>>
    /\ prev = <<>>

SpecLive == LiveInit /\ [][Next]_vars /\ WF_vars(Next)

\* ask_human_choice refused the line typed and asks again
Reprompted ==
    /\ Len(prompts') = Len(prompts) + 1
    /\ prompts'[Len(prompts')].choice = "again"

RepromptStep ==
    Reprompted =>
        /\ pc' = pc
        /\ UNCHANGED <<readme, state, keywords, stageLog, report, written, result,
                       raised, files, sc, opLog, requests>>

\* C22: every run ends DONE, ABORTED or FAILED (error result or exception)
\* and takes no step after that; the fetch is attempted at most `tries`
\* times; a line refused by ask_human_choice leaves the run where it was,
\* with the pipeline state unchanged.
C22_Termination ==
    /\ <>(pc \in Terminal)
    /\ [][pc \notin Terminal]_vars
    /\ [](Len(opLog) <= sc.tries)
    /\ [][RepromptStep]_vars

C22_Witness ==
    /\ pc = "done"
    /\ inp.interactive
    /\ BadInputs = MaxBadInputs
    /\ Len(opLog) = DefaultTries
    /\ Len(prompts) = 3 + MaxBadInputs

----------------------------------------------------------------------------
(* "edit" answered with no text *)

\* the step is an "edit" answer after which get_multiline_input returned ""
EmptyEditStep ==
    /\ Len(prompts') = Len(prompts) + 1
    /\ prompts'[Len(prompts')].choice = "edit"
    /\ prompts'[Len(prompts')].edited = <<>>

\* where "yes" leads from the checkpoint the run is at
AfterYes == CASE pc = "cp1" -> "tags" [] pc = "cp2" -> "improve" [] OTHER -> "review"

EmptyEditIsProceed ==
    EmptyEditStep =>
        /\ pc \in CheckpointAt
        /\ pc' = AfterYes
        /\ UNCHANGED <<state, readme, keywords, stageLog, report, written, result,
                       raised, files>>

EditedMarkers ==
    <<{"readme_edited_stage1", "readme_after_analyzer_edit"},
      {"readme_edited_stage2", "readme_after_tags_edit"},
      {"intro_edited_stage3"}>>

NoMarkerOfEmptyEdit ==
    /\ \A i \in DOMAIN prompts :
        (prompts[i].choice = "edit" /\ prompts[i].edited = <<>>) =>
            EditedMarkers[prompts[i].cp] \cap DOMAIN state = {}
    /\ \A j \in DOMAIN stageLog :
        /\ (stageLog[j].stage = "tag_recommender" /\ ReadmeEdits(1) = {}) =>
                stageLog[j].arg = state["readme_raw"]
        /\ (stageLog[j].stage = "content_improver" /\ ReadmeEdits(2) = {}) =>
                stageLog[j].arg = state["readme_raw"]
        /\ (stageLog[j].stage = "reviewer" /\ "intro_edited_stage3" \notin DOMAIN state) =>
                stageLog[j].arg["improvements"] = stageLog[3].out

\* C23: "edit" with empty text at a checkpoint takes the run where "yes"
\* takes it, writes no edited marker and changes neither the state nor the
\* text handed to the next stage.
C23_EmptyEditProceeds == [][EmptyEditIsProceed]_vars /\ []NoMarkerOfEmptyEdit

C23_Witness ==
    /\ pc = "done"
    /\ Len(prompts) = 3
    /\ \A i \in 1..3 : prompts[i].choice = "edit" /\ prompts[i].edited = <<>>
    /\ DOMAIN state = {"readme_raw", "analyzer", "tags", "improvements"}
    /\ stageLog[2].arg = <<"r">>
    /\ stageLog[3].arg = <<"r">>

====
